---- MODULE Spec2Model ----
(***************************************************************************)
(* Execution core of the workflow engine: the persisted workflow document  *)
(* (services/state_manager.py), the persistent job queue                   *)
(* (services/queue_service.py), the worker loop (worker.py), the HTTP      *)
(* handlers that create, stop, resume and feed a workflow (app.py) and the *)
(* startup recovery (recovery_manager.py).                                 *)
(*                                                                         *)
(* One workflow id, WfId, is created by the edge; a second id, GhostId,    *)
(* names a workflow whose directory no longer exists and only occurs in a  *)
(* ticket left in the queue file by an earlier run.                        *)
(*                                                                         *)
(* Handlers are async functions without an await, so each is one atomic    *)
(* step of the event loop.  The worker iteration has one suspension point, *)
(* the adapter call: WorkerTake is the part before it, WorkerFinish the    *)
(* part after it.                                                          *)
(***************************************************************************)
EXTENDS Integers, Sequences, FiniteSets, TLC

\* ------------------------------------------------------------------ bounds
\* Edge operations (stop, resume, external-data) taken in one behaviour.
MaxEdgeOps == 3
\* Process crashes and raised I/O errors taken in one behaviour.
MaxCrashes == 2
\* add calls, and get_next calls, made on the queue driven on its own.
MaxQueueCalls == 4

\* --------------------------------------------------------------- JobStatus
PENDING == "PENDING"
RUNNING == "RUNNING"
COMPLETED == "COMPLETED"
FAILED == "FAILED"
WAITING_FOR_DEPENDENCY == "WAITING_FOR_DEPENDENCY"
STOPPED == "STOPPED"

JobStatus == {PENDING, RUNNING, COMPLETED, FAILED, WAITING_FOR_DEPENDENCY, STOPPED}

STOP_WORKFLOW == "stop_workflow"
CONTINUE == "continue"

WfId == "W"
GhostId == "ghost"
ExtId == "X"

\* ------------------------------------------------------------ the documents
\* A WorkflowStep.  outputs and error record whether the field is populated.
Step(id, deps, pol) ==
  [id |-> id, status |-> PENDING, dependencies |-> deps, on_failure |-> pol,
   outputs |-> FALSE, error |-> FALSE]

\* An external step that is appended like a step still to be run.
ExternalStepBroken ==
  [id |-> ExtId, status |-> PENDING, dependencies |-> {},
   on_failure |-> STOP_WORKFLOW, outputs |-> FALSE, error |-> FALSE]

\* The step external-data appends: COMPLETED at once, no dependencies.
ExternalStep ==
  [id |-> ExtId, status |-> COMPLETED, dependencies |-> {},
   on_failure |-> STOP_WORKFLOW, outputs |-> TRUE, error |-> FALSE]

\* No state.json in the workflow's directory.
NoDoc == [status |-> "NONE", progress |-> 0, steps |-> <<>>]

\* A state.json that a killed or failed write_text left truncated: the file
\* is there, json.load fails on it.
TornDoc == [status |-> "TORN", progress |-> 0, steps |-> <<>>]

\* StateManager.exists(): the file is there.
Exists(doc) == doc.status # "NONE"

\* StateManager.get() returns a Workflow: the file is there and parses.
Loads(doc) == doc.status \notin {"NONE", "TORN"}

Policies == {STOP_WORKFLOW, CONTINUE}

\* The step lists a client posts to create_workflow: five dependency graphs,
\* the first two steps of four of them with either failure policy.
Linear2 == {<<Step("A", {}, p), Step("B", {"A"}, q)>> : p \in Policies, q \in Policies}
Indep2 == {<<Step("A", {}, p), Step("B", {}, q)>> : p \in Policies, q \in Policies}
Chain3 ==
  {<<Step("A", {}, p), Step("B", {"A"}, q), Step("C", {"B"}, STOP_WORKFLOW)>> :
     p \in Policies, q \in Policies}
Diamond4 ==
  {<<Step("A", {}, p), Step("B", {"A"}, q), Step("C", {"A"}, STOP_WORKFLOW),
     Step("D", {"B", "C"}, STOP_WORKFLOW)>> : p \in Policies, q \in Policies}
Indep3 ==
  {<<Step("A", {}, STOP_WORKFLOW), Step("B", {}, STOP_WORKFLOW), Step("C", {}, STOP_WORKFLOW)>>}
Requests == Linear2 \cup Indep2 \cup Indep3 \cup Chain3 \cup Diamond4

\* Step lists a client can post as well: a dependency cycle, and a dependency
\* on an id that is not a step of the workflow.
Cyclic2 == <<Step("A", {"B"}, STOP_WORKFLOW), Step("B", {"A"}, STOP_WORKFLOW)>>
Dangling2 == <<Step("A", {}, STOP_WORKFLOW), Step("B", {"Z"}, STOP_WORKFLOW)>>
Malformed == {Cyclic2, Dangling2}

Ticket(w, n) == [workflow_id |-> w, node_id |-> n]

\* --------------------------------------------------------------- the state
VARIABLES
  phase,     \* "down": no process; "up": lifespan has started the worker
  disk,      \* workflows/W/state.json
  qfile,     \* the queue state file: [state, items]
  queue,     \* MemoryQueue.queue of the running process
  wpc,       \* worker: "idle" between iterations, "call" awaiting execute_node
  wmem,      \* worker: the Workflow object it loaded and mutates
  wnode,     \* worker: node_id of the last job it dequeued
  edgeOps,   \* edge operations taken so far
  crashes,   \* crashes and raised I/O errors so far
  last,      \* history: the step of the event loop taken last
  owed,      \* history: the queue in memory when the process was killed,
             \* that is the tickets add() had returned for and get_next had not
  invoked,   \* history: the steps execute_node has been called for without
             \* the worker having written the outcome, and that neither
             \* recovery nor resume has reset since
  qlog       \* history: the add and get_next calls made on a MemoryQueue that
             \* is driven on its own (SpecQueue)

vars ==
  <<phase, disk, qfile, queue, wpc, wmem, wnode, edgeOps, crashes, last, owed,
    invoked, qlog>>

\* ---------------------------------------------------------- document helpers
StepIds(workflow) == {workflow.steps[i].id : i \in DOMAIN workflow.steps}

HasStep(workflow, id) == id \in StepIds(workflow)

\* next((n for n in workflow.steps if n.id == node_id), None)
FindStep(workflow, id) ==
  workflow.steps[CHOOSE i \in DOMAIN workflow.steps : workflow.steps[i].id = id]

\* {s.id for s in workflow.steps if s.status == JobStatus.COMPLETED}
CompletedStepIds(workflow) ==
  {workflow.steps[i].id : i \in {j \in DOMAIN workflow.steps : workflow.steps[j].status = COMPLETED}}

CompletedCount(workflow) ==
  Cardinality({j \in DOMAIN workflow.steps : workflow.steps[j].status = COMPLETED})

\* int((completed_steps / total_steps) * 100); the float product is exact
\* enough for the step counts modelled here that truncation equals floor.
calculate_workflow_progress(workflow) ==
  IF Len(workflow.steps) = 0 THEN 0
  ELSE (CompletedCount(workflow) * 100) \div Len(workflow.steps)

\* ------------------------------------------------------------- MemoryQueue
NoFile == [state |-> "missing", items |-> <<>>]

\* A write_text cut short by a crash: the file is truncated or partial JSON.
TornFile == [state |-> "torn", items |-> <<>>]

\* _persist: the whole queue, written to the queue file.
Persisted(q) == [state |-> "ok", items |-> q]

\* _load: [] when the file is missing or json.loads fails.
Load(f) == IF f.state = "ok" THEN f.items ELSE <<>>

\* get_next's result when the queue is empty.
None == [workflow_id |-> "", node_id |-> ""]

\* add: the queue after the append.
add(q, job) == Append(q, job)

\* A get_next that takes the newest ticket.
get_nextBroken(q) ==
  IF q = <<>> THEN [job |-> None, queue |-> q]
  ELSE [job |-> q[Len(q)], queue |-> SubSeq(q, 1, Len(q) - 1)]

\* get_next: the result, and the queue after the pop(0).
get_next(q) ==
  IF q = <<>> THEN [job |-> None, queue |-> q]
  ELSE [job |-> Head(q), queue |-> Tail(q)]

size(q) == Len(q)

\* No call made yet.
NoCalls == [adds |-> <<>>, gets |-> <<>>]

\* any(f"{j['workflow_id']}/{j['node_id']}" == job_key for j in queue.queue)
InQueue(q, w, n) == \E i \in DOMAIN q : q[i] = Ticket(w, n)

\* The ids of the steps of a list that pass a test, as tickets in list order.
RECURSIVE TicketsOf(_, _)
TicketsOf(steps, ids) ==
  IF steps = <<>> THEN <<>>
  ELSE IF Head(steps).id \in ids
       THEN <<Ticket(WfId, Head(steps).id)>> \o TicketsOf(Tail(steps), ids)
       ELSE TicketsOf(Tail(steps), ids)

\* ------------------------------------------------------------------ worker
\* The dependency gate: a step with dependencies passes only when all of them
\* are ids of COMPLETED steps of the loaded workflow.
DependenciesMetBroken(workflow, node) == TRUE
DependenciesMet(workflow, node) ==
  node.dependencies = {} \/ node.dependencies \subseteq CompletedStepIds(workflow)

\* The idempotency gate.
IsTerminalStepBroken(node) == node.status \in {COMPLETED, FAILED}
IsTerminalStep(node) == node.status \in {COMPLETED, FAILED, STOPPED}

\* Gates that let a ticket through whose step is not in the document.
PassesGatesBroken(workflow, node_id) ==
  /\ Loads(workflow)
  /\ HasStep(workflow, node_id)
       => /\ DependenciesMet(workflow, FindStep(workflow, node_id))
          /\ ~IsTerminalStep(FindStep(workflow, node_id))

\* A dequeued job goes on to execution: the document loads, the node is in
\* it, and both gates let it through.
PassesGates(workflow, node_id) ==
  /\ Loads(workflow)
  /\ HasStep(workflow, node_id)
  /\ DependenciesMet(workflow, FindStep(workflow, node_id))
  /\ ~IsTerminalStep(FindStep(workflow, node_id))

\* A start of a step that sets the workflow RUNNING whatever its status.
MarkRunningBroken(workflow, node_id) ==
  [workflow EXCEPT
     !.status = RUNNING,
     !.steps = [i \in DOMAIN workflow.steps |->
                  IF workflow.steps[i].id = node_id
                  THEN [workflow.steps[i] EXCEPT !.status = RUNNING]
                  ELSE workflow.steps[i]]]

\* node.status = RUNNING; workflow.status = RUNNING unless FAILED.
MarkRunning(workflow, node_id) ==
  [workflow EXCEPT
     !.status = IF workflow.status # FAILED THEN RUNNING ELSE workflow.status,
     !.steps = [i \in DOMAIN workflow.steps |->
                  IF workflow.steps[i].id = node_id
                  THEN [workflow.steps[i] EXCEPT !.status = RUNNING]
                  ELSE workflow.steps[i]]]

\* The steps a stop_workflow failure of node_id stops.
CascadeTargets(workflow, node_id) ==
  {workflow.steps[i].id : i \in {j \in DOMAIN workflow.steps :
      /\ node_id \in workflow.steps[j].dependencies
      /\ workflow.steps[j].status \in {PENDING, WAITING_FOR_DEPENDENCY}}}

\* An error branch that applies stop_workflow whatever the step's policy.
AfterErrorBroken(workflow, node_id) ==
  [workflow EXCEPT
     !.status = FAILED,
     !.steps = [i \in DOMAIN workflow.steps |->
                  IF workflow.steps[i].id = node_id
                  THEN [workflow.steps[i] EXCEPT !.status = FAILED, !.error = TRUE]
                  ELSE IF workflow.steps[i].id \in CascadeTargets(workflow, node_id)
                  THEN [workflow.steps[i] EXCEPT !.status = STOPPED]
                  ELSE workflow.steps[i]]]

\* The adapter returned an error.
AfterError(workflow, node_id) ==
  LET node == FindStep(workflow, node_id)
      critical == node.on_failure = STOP_WORKFLOW
      stopped == IF critical THEN CascadeTargets(workflow, node_id) ELSE {}
  IN [workflow EXCEPT
        !.status = IF critical THEN FAILED ELSE workflow.status,
        !.steps = [i \in DOMAIN workflow.steps |->
                     IF workflow.steps[i].id = node_id
                     THEN [workflow.steps[i] EXCEPT !.status = FAILED, !.error = TRUE]
                     ELSE IF workflow.steps[i].id \in stopped
                     THEN [workflow.steps[i] EXCEPT !.status = STOPPED]
                     ELSE workflow.steps[i]]]

\* A success branch that queues nothing.
NewlyReadyBroken(workflow, q) == {}

\* The steps the success branch queues: PENDING, with dependencies, all of
\* them COMPLETED, and no ticket in the queue yet.
NewlyReady(workflow, q) ==
  {workflow.steps[i].id : i \in {j \in DOMAIN workflow.steps :
      /\ workflow.steps[j].status = PENDING
      /\ workflow.steps[j].dependencies # {}
      /\ workflow.steps[j].dependencies \subseteq CompletedStepIds(workflow)
      /\ ~InQueue(q, WfId, workflow.steps[j].id)}}

MarkWaiting(workflow, ids) ==
  [workflow EXCEPT
     !.steps = [i \in DOMAIN workflow.steps |->
                  IF workflow.steps[i].id \in ids
                  THEN [workflow.steps[i] EXCEPT !.status = WAITING_FOR_DEPENDENCY]
                  ELSE workflow.steps[i]]]

\* The adapter returned an output.
AfterSuccess(workflow, node_id) ==
  [workflow EXCEPT
     !.steps = [i \in DOMAIN workflow.steps |->
                  IF workflow.steps[i].id = node_id
                  THEN [workflow.steps[i] EXCEPT !.status = COMPLETED, !.outputs = TRUE]
                  ELSE workflow.steps[i]]]

IsWorkflowTerminal(workflow) ==
  ~\E i \in DOMAIN workflow.steps :
     workflow.steps[i].status \in {PENDING, RUNNING, WAITING_FOR_DEPENDENCY}

HasCriticalFailure(workflow) ==
  \E i \in DOMAIN workflow.steps :
     workflow.steps[i].status = FAILED /\ workflow.steps[i].on_failure = STOP_WORKFLOW

\* Progress and workflow status, recomputed at the end of the iteration.
Recompute(workflow) ==
  IF IsWorkflowTerminal(workflow)
  THEN [workflow EXCEPT
          !.status = IF workflow.status # FAILED
                     THEN (IF HasCriticalFailure(workflow) THEN FAILED ELSE COMPLETED)
                     ELSE workflow.status,
          !.progress = 100]
  ELSE [workflow EXCEPT
          !.status = IF workflow.status # FAILED THEN RUNNING ELSE workflow.status,
          !.progress = calculate_workflow_progress(workflow)]

\* queue.get_next(), the load of the document, the two gates and the write of
\* the RUNNING state: everything up to the await of execute_node.
WorkerTake ==
  /\ phase = "up"
  /\ wpc = "idle"
  /\ queue # <<>>
  /\ LET job == get_next(queue).job
         workflow == IF job.workflow_id = WfId THEN disk ELSE NoDoc
     IN /\ queue' = get_next(queue).queue
        /\ qfile' = Persisted(queue')
        /\ IF PassesGates(workflow, job.node_id)
           THEN /\ wmem' = MarkRunning(workflow, job.node_id)
                /\ disk' = MarkRunning(workflow, job.node_id)
                /\ wpc' = "call"
                /\ last' = "run"
                /\ invoked' = invoked \cup {job.node_id}
           ELSE /\ UNCHANGED <<disk, wmem, wpc, invoked>>
                /\ last' = "skip"
        /\ wnode' = job.node_id
  /\ UNCHANGED <<phase, edgeOps, crashes, owed, qlog>>

\* execute_node returned (error TRUE: with an error): the rest of the
\* iteration, on the Workflow object loaded before the call.
WorkerFinish(error) ==
  /\ phase = "up"
  /\ wpc = "call"
  /\ LET done == IF error THEN AfterError(wmem, wnode) ELSE AfterSuccess(wmem, wnode)
         ready == IF error THEN {} ELSE NewlyReady(done, queue)
         final == Recompute(MarkWaiting(done, ready))
     IN /\ queue' = queue \o TicketsOf(final.steps, ready)
        /\ qfile' = IF ready = {} THEN qfile ELSE Persisted(queue')
        /\ disk' = final
  /\ wpc' = "idle"
  /\ wmem' = NoDoc
  /\ last' = IF error THEN "error" ELSE "success"
  /\ invoked' = invoked \ {wnode}
  /\ UNCHANGED <<phase, wnode, edgeOps, crashes, owed, qlog>>

\* The except branch of the iteration: the node is FAILED with an error
\* message, its outputs are left as they are; with stop_workflow the workflow
\* is FAILED and the direct dependents are STOPPED.  Nothing is recomputed.
AfterException(workflow, node_id) == AfterError(workflow, node_id)

\* execute_node returned an output and the rest of the iteration raises, then
\* the except branch writes the document.
\*   at = "add":   the k-th queue.add of the success branch raises in
\*                 _persist, after its append; write_text has left the queue
\*                 file as it was or truncated.
\*   at = "write": every queue.add succeeded and the final
\*                 state_manager.write raises.
WorkerFinishRaises(at, k) ==
  /\ phase = "up"
  /\ wpc = "call"
  /\ LET done == AfterSuccess(wmem, wnode)
         ready == NewlyReady(done, queue)
         added == TicketsOf(done.steps, ready)
         before == {added[i].node_id : i \in 1..(k - 1)}
     IN IF at = "add"
        THEN /\ k \in 1..Len(added)
             /\ queue' = queue \o SubSeq(added, 1, k)
             /\ qfile' \in {IF k = 1 THEN qfile ELSE Persisted(queue \o SubSeq(added, 1, k - 1)),
                            TornFile}
             /\ disk' = AfterException(MarkWaiting(done, before), wnode)
        ELSE /\ k = 1
             /\ queue' = queue \o added
             /\ qfile' = IF ready = {} THEN qfile ELSE Persisted(queue')
             /\ disk' = AfterException(Recompute(MarkWaiting(done, ready)), wnode)
  /\ wpc' = "idle"
  /\ wmem' = NoDoc
  /\ last' = "raise"
  /\ crashes < MaxCrashes
  /\ crashes' = crashes + 1
  /\ invoked' = invoked \ {wnode}
  /\ UNCHANGED <<phase, wnode, edgeOps, owed, qlog>>

\* The iteration up to the write of the RUNNING state, and that write raises:
\* line 160 is outside the try whose except branch marks the node FAILED, so
\* the exception reaches the loop's outer handler, which logs, sleeps and goes
\* on.  The ticket is gone; write_text has left state.json as it was or
\* truncated.
WorkerTakeRaises ==
  /\ phase = "up"
  /\ wpc = "idle"
  /\ queue # <<>>
  /\ crashes < MaxCrashes
  /\ LET job == get_next(queue).job
         workflow == IF job.workflow_id = WfId THEN disk ELSE NoDoc
     IN /\ PassesGates(workflow, job.node_id)
        /\ queue' = get_next(queue).queue
        /\ qfile' = Persisted(queue')
        /\ disk' \in {disk, TornDoc}
        /\ wnode' = job.node_id
  /\ crashes' = crashes + 1
  /\ last' = "raise_take"
  /\ UNCHANGED <<phase, wpc, wmem, edgeOps, owed, invoked, qlog>>

\* --------------------------------------------------------------------- edge
\* A creation that queues every step.
InitialIdsBroken(steps) == {steps[i].id : i \in DOMAIN steps}

\* Steps without dependencies are queued and marked; the others are PENDING.
InitialIds(steps) == {steps[i].id : i \in {j \in DOMAIN steps : steps[j].dependencies = {}}}

\* A create_workflow without the check for an existing document.
ConflictBroken(workflow) == FALSE

\* create_workflow's check: state_manager.exists().
Conflict(workflow) == Exists(workflow)

\* POST /workflows: 409 when the document exists; else the document is
\* written PENDING with progress 0 and the dependency-free steps are queued.
CreateWorkflow(steps) ==
  /\ phase = "up"
  /\ ~Conflict(disk)
  /\ LET workflow == [status |-> PENDING, progress |-> 0, steps |-> steps]
     IN /\ disk' = MarkWaiting(workflow, InitialIds(steps))
        /\ queue' = queue \o TicketsOf(steps, InitialIds(steps))
        /\ qfile' = IF InitialIds(steps) = {} THEN qfile ELSE Persisted(queue')
  /\ last' = "create"
  /\ invoked' = {}
  /\ UNCHANGED <<phase, wpc, wmem, wnode, edgeOps, crashes, owed, qlog>>

\* POST /workflows for an id whose document exists: HTTPException 409 before
\* anything is written or queued.
CreateConflict ==
  /\ phase = "up"
  /\ Conflict(disk)
  /\ last' = "conflict"
  /\ UNCHANGED <<phase, disk, qfile, queue, wpc, wmem, wnode, edgeOps, crashes, owed,
                 invoked, qlog>>

\* A stop that also stops the COMPLETED steps.
StoppedBroken(workflow) ==
  [workflow EXCEPT
     !.status = STOPPED,
     !.steps = [i \in DOMAIN workflow.steps |->
                  IF workflow.steps[i].status \in {RUNNING, PENDING, WAITING_FOR_DEPENDENCY, COMPLETED}
                  THEN [workflow.steps[i] EXCEPT !.status = STOPPED]
                  ELSE workflow.steps[i]]]

\* The document stop_workflow writes.
Stopped(workflow) ==
  [workflow EXCEPT
     !.status = STOPPED,
     !.steps = [i \in DOMAIN workflow.steps |->
                  IF workflow.steps[i].status \in {RUNNING, PENDING, WAITING_FOR_DEPENDENCY}
                  THEN [workflow.steps[i] EXCEPT !.status = STOPPED]
                  ELSE workflow.steps[i]]]

\* POST /workflows/{id}/stop: nothing for a COMPLETED, FAILED or STOPPED
\* workflow.
StopWorkflow ==
  /\ phase = "up"
  /\ Loads(disk)
  /\ edgeOps < MaxEdgeOps
  /\ disk.status \notin {COMPLETED, FAILED, STOPPED}
  /\ disk' = Stopped(disk)
  /\ edgeOps' = edgeOps + 1
  /\ last' = "stop"
  /\ UNCHANGED <<phase, qfile, queue, wpc, wmem, wnode, crashes, owed, invoked, qlog>>

\* POST /workflows/{id}/stop for a COMPLETED, FAILED or STOPPED workflow: the
\* handler logs "No action taken" and returns the document as it is.
StopIgnored ==
  /\ phase = "up"
  /\ Loads(disk)
  /\ disk.status \in {COMPLETED, FAILED, STOPPED}
  /\ last' = "stop_ignored"
  /\ UNCHANGED <<phase, disk, qfile, queue, wpc, wmem, wnode, edgeOps, crashes, owed,
                 invoked, qlog>>

\* The steps resume re-queues: after the reset of PENDING,
\* WAITING_FOR_DEPENDENCY and STOPPED steps to PENDING, those whose
\* dependencies are COMPLETED or that have none.  FAILED steps are left.
ResumeIds(workflow) ==
  {workflow.steps[i].id : i \in {j \in DOMAIN workflow.steps :
      /\ workflow.steps[j].status \in {PENDING, WAITING_FOR_DEPENDENCY, STOPPED}
      /\ \/ workflow.steps[j].dependencies = {}
         \/ workflow.steps[j].dependencies \subseteq CompletedStepIds(workflow)}}

\* The document resume_workflow writes.
Resumed(workflow) ==
  [workflow EXCEPT
     !.status = PENDING,
     !.steps = [i \in DOMAIN workflow.steps |->
                  IF workflow.steps[i].id \in ResumeIds(workflow)
                  THEN [workflow.steps[i] EXCEPT !.status = WAITING_FOR_DEPENDENCY]
                  ELSE IF workflow.steps[i].status \in {PENDING, WAITING_FOR_DEPENDENCY, STOPPED}
                  THEN [workflow.steps[i] EXCEPT !.status = PENDING]
                  ELSE workflow.steps[i]]]

\* The steps resume resets.
ResumeResetIds(workflow) ==
  {workflow.steps[i].id : i \in {j \in DOMAIN workflow.steps :
      workflow.steps[j].status \in {PENDING, WAITING_FOR_DEPENDENCY, STOPPED}}}

\* POST /workflows/{id}/resume: only for a STOPPED or FAILED workflow.
ResumeWorkflow ==
  /\ phase = "up"
  /\ Loads(disk)
  /\ edgeOps < MaxEdgeOps
  /\ disk.status \in {STOPPED, FAILED}
  /\ disk' = Resumed(disk)
  /\ queue' = queue \o TicketsOf(disk.steps, ResumeIds(disk))
  /\ qfile' = IF ResumeIds(disk) = {} THEN qfile ELSE Persisted(queue')
  /\ edgeOps' = edgeOps + 1
  /\ last' = "resume"
  /\ invoked' = invoked \ ResumeResetIds(disk)
  /\ UNCHANGED <<phase, wpc, wmem, wnode, crashes, owed, qlog>>

\* POST /workflows/{id}/external-data: a COMPLETED step is appended, the
\* steps it unblocks are queued, progress is recomputed.  The step's id is a
\* fresh uuid: the model has one such id.
AddExternalData ==
  /\ phase = "up"
  /\ Loads(disk)
  /\ edgeOps < MaxEdgeOps
  /\ ~HasStep(disk, ExtId)
  /\ LET added == [disk EXCEPT !.steps = Append(disk.steps, ExternalStep)]
         ready == NewlyReady(added, queue)
         marked == MarkWaiting(added, ready)
     IN /\ disk' = [marked EXCEPT
                      !.progress = calculate_workflow_progress(marked),
                      !.status = IF disk.status = PENDING /\ ready # {}
                                 THEN RUNNING ELSE disk.status]
        /\ queue' = queue \o TicketsOf(added.steps, ready)
        /\ qfile' = IF ready = {} THEN qfile ELSE Persisted(queue')
        /\ last' = IF ready = {} THEN "external" ELSE "external_queued"
  /\ edgeOps' = edgeOps + 1
  /\ UNCHANGED <<phase, wpc, wmem, wnode, crashes, owed, invoked, qlog>>

\* ----------------------------------------------------------------- recovery
\* A workflow check_and_recover_orphans treats as stuck.
IsStuck(workflow) ==
Loads(workflow) /\ workflow.status \in {RUNNING, PENDING, WAITING_FOR_DEPENDENCY}

\* A recovery that resets the steps and queues none.
RequeueIdsBroken(workflow, q) == {}

\* The steps recovery re-queues: PENDING after the reset of RUNNING and
\* WAITING_FOR_DEPENDENCY steps, dependencies COMPLETED or none, and no ticket
\* in the queue.
RequeueIds(workflow, q) ==
  {workflow.steps[i].id : i \in {j \in DOMAIN workflow.steps :
      /\ workflow.steps[j].status \in {PENDING, RUNNING, WAITING_FOR_DEPENDENCY}
      /\ \/ workflow.steps[j].dependencies = {}
         \/ workflow.steps[j].dependencies \subseteq CompletedStepIds(workflow)
      /\ ~InQueue(q, WfId, workflow.steps[j].id)}}

\* needs_save: the workflow was RUNNING, a step was reset, or one was queued.
NeedsSave(workflow, q) ==
  \/ workflow.status = RUNNING
  \/ \E i \in DOMAIN workflow.steps :
       workflow.steps[i].status \in {RUNNING, WAITING_FOR_DEPENDENCY}
  \/ RequeueIds(workflow, q) # {}

\* The document recovery leaves for a stuck workflow.
RecoveredDoc(workflow, q) ==
  LET reset ==
        [workflow EXCEPT
           !.status = IF workflow.status = RUNNING THEN PENDING ELSE workflow.status,
           !.steps = [i \in DOMAIN workflow.steps |->
                        IF workflow.steps[i].id \in RequeueIds(workflow, q)
                        THEN [workflow.steps[i] EXCEPT
                                !.status = WAITING_FOR_DEPENDENCY,
                                !.error = IF workflow.steps[i].status = RUNNING
                                          THEN FALSE ELSE workflow.steps[i].error]
                        ELSE IF workflow.steps[i].status = RUNNING
                        THEN [workflow.steps[i] EXCEPT !.status = PENDING, !.error = FALSE]
                        ELSE IF workflow.steps[i].status = WAITING_FOR_DEPENDENCY
                        THEN [workflow.steps[i] EXCEPT !.status = PENDING]
                        ELSE workflow.steps[i]]]
  IN [reset EXCEPT !.progress = calculate_workflow_progress(reset)]

\* check_and_recover_orphans on the persisted document and the loaded queue:
\* the document, the queue and the queue file it leaves.
check_and_recover_orphans(workflow, q, f) ==
  IF IsStuck(workflow) /\ NeedsSave(workflow, q)
  THEN LET added == TicketsOf(workflow.steps, RequeueIds(workflow, q))
       IN [disk |-> RecoveredDoc(workflow, q),
           queue |-> q \o added,
           qfile |-> IF added = <<>> THEN f ELSE Persisted(q \o added)]
  ELSE [disk |-> workflow, queue |-> q, qfile |-> f]

\* sm.exists() for the workflow a ticket names.
TicketWorkflowExists(workflow, job) == job.workflow_id = WfId /\ Exists(workflow)

\* cleanup_stale_queue_items: the tickets whose workflow has a state.json
\* are kept; queue.queue is replaced in memory, the file is not rewritten.
cleanup_stale_queue_items(workflow, q) ==
  SelectSeq(q, LAMBDA job : TicketWorkflowExists(workflow, job))

\* The steps recovery resets: the RUNNING and WAITING_FOR_DEPENDENCY steps of
\* a stuck workflow.
ResetIds(workflow) ==
  IF IsStuck(workflow)
  THEN {workflow.steps[i].id : i \in {j \in DOMAIN workflow.steps :
          workflow.steps[j].status \in {RUNNING, WAITING_FOR_DEPENDENCY}}}
  ELSE {}

\* A lifespan that creates the worker task before the cleanup has run.
RecoveryRunBroken(workflow, q, f) == check_and_recover_orphans(workflow, q, f)

\* lifespan startup, once the module-level MemoryQueue has loaded the file:
\* recovery, then cleanup; the worker task starts afterwards.
RecoveryRun(workflow, q, f) ==
  LET r == check_and_recover_orphans(workflow, q, f)
  IN [r EXCEPT !.queue = cleanup_stale_queue_items(r.disk, r.queue)]

Startup ==
  /\ phase = "down"
  /\ LET r == RecoveryRun(disk, Load(qfile), qfile)
     IN /\ disk' = r.disk
        /\ queue' = r.queue
        /\ qfile' = r.qfile
  /\ phase' = "up"
  /\ last' = "startup"
  /\ owed' = <<>>
  /\ invoked' = invoked \ ResetIds(disk)
  /\ UNCHANGED <<wpc, wmem, wnode, edgeOps, crashes, qlog>>

\* ------------------------------------------------------------------ crashes
\* The process is killed: memory is lost, the files stay as they are.
Killed ==
  /\ phase' = "down"
  /\ queue' = <<>>
  /\ wpc' = "idle"
  /\ wmem' = NoDoc
  /\ wnode' = ""
  /\ crashes' = crashes + 1
  /\ last' = "crash"
  /\ UNCHANGED <<edgeOps, invoked, qlog>>

\* Killed between two steps of the event loop (also: during the adapter call).
Crash ==
  /\ phase = "up"
  /\ crashes < MaxCrashes
  /\ Killed
  /\ owed' = queue
  /\ UNCHANGED <<disk, qfile>>

\* Killed inside the write_text of get_next's _persist: the queue file is left
\* truncated.  get_next has not returned the ticket it popped.
CrashInPersist ==
  /\ phase = "up"
  /\ crashes < MaxCrashes
  /\ wpc = "idle"
  /\ queue # <<>>
  /\ Killed
  /\ qfile' = TornFile
  /\ owed' = Tail(queue)
  /\ UNCHANGED disk

\* Killed in the worker after get_next has returned and before the RUNNING
\* state is written.
CrashInTake ==
  /\ phase = "up"
  /\ crashes < MaxCrashes
  /\ wpc = "idle"
  /\ queue # <<>>
  /\ Killed
  /\ qfile' = Persisted(Tail(queue))
  /\ owed' = Tail(queue)
  /\ UNCHANGED disk

\* Killed inside the write_text of the worker's write of the RUNNING state:
\* state.json is left truncated.
CrashInStateWrite ==
  /\ phase = "up"
  /\ crashes < MaxCrashes
  /\ wpc = "idle"
  /\ queue # <<>>
  /\ Head(queue).workflow_id = WfId
  /\ PassesGates(disk, Head(queue).node_id)
  /\ Killed
  /\ qfile' = Persisted(Tail(queue))
  /\ owed' = Tail(queue)
  /\ disk' = TornDoc

\* Killed in the worker's success branch after k of its queue.add calls and
\* before the final state_manager.write.
CrashInFinish(k) ==
  /\ phase = "up"
  /\ crashes < MaxCrashes
  /\ wpc = "call"
  /\ LET done == AfterSuccess(wmem, wnode)
         added == TicketsOf(done.steps, NewlyReady(done, queue))
     IN /\ k \in 1..Len(added)
        /\ qfile' = Persisted(queue \o SubSeq(added, 1, k))
        /\ owed' = queue \o SubSeq(added, 1, k)
  /\ Killed
  /\ UNCHANGED disk

\* ------------------------------------------------------------ specification
\* Before the first start: no workflow directory; the queue file is missing,
\* or holds a ticket of a workflow whose directory has been removed.
Init ==
  /\ phase = "down"
  /\ disk = NoDoc
  /\ qfile \in {NoFile, Persisted(<<Ticket(GhostId, "A")>>)}
  /\ queue = <<>>
  /\ wpc = "idle"
  /\ wmem = NoDoc
  /\ wnode = ""
  /\ edgeOps = 0
  /\ crashes = 0
  /\ last = "init"
  /\ owed = <<>>
  /\ invoked = {}
  /\ qlog = NoCalls

Next ==
  \/ Startup
  \/ \E steps \in Requests : CreateWorkflow(steps)
  \/ WorkerTake
  \/ WorkerTakeRaises
  \/ \E error \in BOOLEAN : WorkerFinish(error)
  \/ \E at \in {"add", "write"}, k \in 1..Len(wmem.steps) : WorkerFinishRaises(at, k)
  \/ StopWorkflow
  \/ ResumeWorkflow
  \/ AddExternalData
  \/ Crash
  \/ CrashInPersist
  \/ CrashInTake
  \/ CrashInStateWrite
  \/ \E k \in 1..Len(wmem.steps) : CrashInFinish(k)

Spec == Init /\ [][Next]_vars

\* The process can be killed at any point, and no I/O call raises.
NextKill ==
  \/ Startup
  \/ \E steps \in Requests : CreateWorkflow(steps)
  \/ WorkerTake
  \/ \E error \in BOOLEAN : WorkerFinish(error)
  \/ StopWorkflow
  \/ ResumeWorkflow
  \/ AddExternalData
  \/ Crash
  \/ CrashInPersist
  \/ CrashInTake
  \/ CrashInStateWrite
  \/ \E k \in 1..Len(wmem.steps) : CrashInFinish(k)

SpecKill == Init /\ [][NextKill]_vars

\* Runs in which every adapter call succeeds, nobody stops the workflow and
\* the process is not killed.  The worker loop polls the queue for ever and
\* the adapter call is taken to return, hence the weak fairness of both
\* halves of the iteration.
NextSuccess ==
  \/ Startup
  \/ \E steps \in Requests : CreateWorkflow(steps)
  \/ WorkerTake
  \/ WorkerFinish(FALSE)
  \/ AddExternalData

SpecSuccess ==
  /\ Init
  /\ [][NextSuccess]_vars
  /\ WF_vars(WorkerTake)
  /\ WF_vars(WorkerFinish(FALSE))

\* The directory of the workflow is removed while the process runs and the
\* worker is between iterations; the tickets of the workflow stay in the
\* queue.
RemoveWorkflow ==
  /\ phase = "up"
  /\ wpc = "idle"
  /\ Exists(disk)
  /\ edgeOps < MaxEdgeOps
  /\ disk' = NoDoc
  /\ edgeOps' = edgeOps + 1
  /\ last' = "remove"
  /\ UNCHANGED <<phase, qfile, queue, wpc, wmem, wnode, crashes, owed, invoked, qlog>>

\* The HTTP handlers with the calls they reject, any step list a client can
\* post, and workflow directories that go away; the process is not killed
\* and no I/O call raises.
NextOperator ==
  \/ Startup
  \/ \E steps \in Requests \cup Malformed : CreateWorkflow(steps)
  \/ CreateConflict
  \/ WorkerTake
  \/ \E error \in BOOLEAN : WorkerFinish(error)
  \/ StopWorkflow
  \/ StopIgnored
  \/ ResumeWorkflow
  \/ AddExternalData
  \/ RemoveWorkflow

SpecOperator == Init /\ [][NextOperator]_vars

\* Runs in which adapter calls succeed or return an error, nobody stops the
\* workflow and the process is not killed; the worker is scheduled fairly and
\* every adapter call returns.
NextRun ==
  \/ Startup
  \/ \E steps \in Requests : CreateWorkflow(steps)
  \/ WorkerTake
  \/ \E error \in BOOLEAN : WorkerFinish(error)

SpecRun ==
  /\ Init
  /\ [][NextRun]_vars
  /\ WF_vars(WorkerTake)
  /\ WF_vars(\E error \in BOOLEAN : WorkerFinish(error))

\* A MemoryQueue on its own, constructed without a queue file and driven by
\* any sequence of add and get_next calls.
Jobs == {Ticket(WfId, "A"), Ticket(WfId, "B")}

QueueAdd(job) ==
  /\ Len(qlog.adds) < MaxQueueCalls
  /\ queue' = add(queue, job)
  /\ qfile' = Persisted(queue')
  /\ qlog' = [qlog EXCEPT !.adds = Append(@, job)]
  /\ UNCHANGED <<phase, disk, wpc, wmem, wnode, edgeOps, crashes, last, owed, invoked>>

\* The log keeps get_next's result and what size() was before the call.
QueueGetNext ==
  /\ Len(qlog.gets) < MaxQueueCalls
  /\ queue' = get_next(queue).queue
  /\ qfile' = IF queue = <<>> THEN qfile ELSE Persisted(queue')
  /\ qlog' = [qlog EXCEPT !.gets = Append(@, [job |-> get_next(queue).job,
                                              size |-> size(queue)])]
  /\ UNCHANGED <<phase, disk, wpc, wmem, wnode, edgeOps, crashes, last, owed, invoked>>

InitQueue == Init /\ qfile = NoFile

NextQueue ==
  \/ \E job \in Jobs : QueueAdd(job)
  \/ QueueGetNext

SpecQueue == InitQueue /\ [][NextQueue]_vars

\* =================================================================== claims
StatusOf(workflow, id) == FindStep(workflow, id).status

\* The worker has just dequeued a ticket; Job is the step it names.
Head_IsStepOf(workflow) ==
  /\ queue # <<>>
  /\ Head(queue).workflow_id = WfId
  /\ Loads(workflow)
  /\ HasStep(workflow, Head(queue).node_id)

\* The steps that depend on id directly or through other steps.
RECURSIVE SuccessorsWithin(_, _, _)
SuccessorsWithin(workflow, ids, n) ==
  LET more == {workflow.steps[i].id : i \in {j \in DOMAIN workflow.steps :
                  workflow.steps[j].dependencies \cap ids # {}}}
  IN IF n = 0 THEN {} ELSE more \cup SuccessorsWithin(workflow, ids \cup more, n - 1)

TransitiveSuccessors(workflow, id) == SuccessorsWithin(workflow, {id}, Len(workflow.steps))

\* a is b with some elements left out.
RECURSIVE IsSubSeq(_, _)
IsSubSeq(a, b) ==
  IF a = <<>> THEN TRUE
  ELSE IF b = <<>> THEN FALSE
  ELSE IF Head(a) = Head(b) THEN IsSubSeq(Tail(a), Tail(b))
  ELSE IsSubSeq(a, Tail(b))

\* C1. Dependency safety: whenever a step of the persisted document becomes
\* RUNNING, every id in its dependencies is the id of a step of that document
\* whose status is COMPLETED.
C1_DependencySafety ==
  [][\A i \in DOMAIN disk'.steps :
       LET s == disk'.steps[i]
       IN (/\ s.status = RUNNING
           /\ ~(HasStep(disk, s.id) /\ StatusOf(disk, s.id) = RUNNING))
          => s.dependencies \subseteq CompletedStepIds(disk')]_vars

\* C1 witness: the worker has set a step with dependencies RUNNING.
C1_Witness ==
  /\ last = "run"
  /\ wpc = "call"
  /\ FindStep(disk, wnode).dependencies # {}
  /\ StatusOf(disk, wnode) = RUNNING

\* C2. Idempotent execution: a worker iteration that dequeues a ticket whose
\* step is COMPLETED, FAILED or STOPPED leaves the persisted document as it
\* is, adds no ticket, and only removes the ticket it dequeued.
C2_TerminalTicketDiscarded ==
  [][(/\ WorkerTake
      /\ Head_IsStepOf(disk)
      /\ StatusOf(disk, Head(queue).node_id) \in {COMPLETED, FAILED, STOPPED})
     => (/\ disk' = disk
         /\ queue' = Tail(queue)
         /\ wpc' = "idle")]_vars

\* C2 witness: the worker has dequeued and dropped the ticket of a step that
\* is in a terminal state.
C2_Witness ==
  /\ last = "skip"
  /\ Loads(disk)
  /\ HasStep(disk, wnode)
  /\ StatusOf(disk, wnode) \in {COMPLETED, FAILED, STOPPED}
  /\ FindStep(disk, wnode).dependencies \subseteq CompletedStepIds(disk)

\* C3. Cascade, as claimed: when a stop_workflow step fails, every transitive
\* successor that was PENDING or WAITING_FOR_DEPENDENCY is STOPPED in the
\* document persisted at the end of the iteration.
C3_CascadeTransitive ==
  [][(/\ WorkerFinish(TRUE)
      /\ FindStep(wmem, wnode).on_failure = STOP_WORKFLOW)
     => \A id \in TransitiveSuccessors(wmem, wnode) :
          StatusOf(wmem, id) \in {PENDING, WAITING_FOR_DEPENDENCY}
            => StatusOf(disk', id) = STOPPED]_vars

\* C4. Terminal coherence (COMPLETED), as claimed: the persisted workflow is
\* COMPLETED exactly when every one of its steps is COMPLETED.
C4_CompletedIffAllCompleted ==
  Loads(disk) =>
    (disk.status = COMPLETED
       <=> \A i \in DOMAIN disk.steps : disk.steps[i].status = COMPLETED)

\* C5. Terminal coherence (FAILED), as claimed: the persisted workflow is
\* FAILED exactly when one of its steps is FAILED with on_failure
\* stop_workflow.
C5_FailedIffCriticalFailure ==
  Loads(disk) => (disk.status = FAILED <=> HasCriticalFailure(disk))

\* C6. Stop versus in-flight call, as claimed: when the adapter call returns
\* after the operator has stopped the workflow, the worker discards the
\* outcome: the persisted document is still STOPPED with the same step
\* statuses, and no ticket is added.
C6_StopDiscardsInFlightOutcome ==
  [][(/\ \E error \in BOOLEAN : WorkerFinish(error)
      /\ disk.status = STOPPED)
     => (/\ disk'.status = STOPPED
         /\ \A i \in DOMAIN disk.steps :
              /\ HasStep(disk', disk.steps[i].id)
              /\ StatusOf(disk', disk.steps[i].id) = disk.steps[i].status
         /\ queue' = queue)]_vars

\* C7. Recovery idempotence, as claimed: on the document and the (intact)
\* queue file a killed process leaves, recovery followed by cleanup run twice
\* gives the same workflow status, step statuses and queue as run once.
C7_RecoveryIdempotent ==
  (phase = "down" /\ qfile.state # "torn") =>
    LET once == RecoveryRun(disk, Load(qfile), qfile)
        twice == RecoveryRun(once.disk, once.queue, once.qfile)
    IN /\ twice.disk.status = once.disk.status
       /\ \A i \in DOMAIN once.disk.steps :
            twice.disk.steps[i].status = once.disk.steps[i].status
       /\ twice.queue = once.queue

\* C8. Progress monotonicity, as claimed: from one persisted document to the
\* next, progress does not decrease, except in the write of resume.
C8_ProgressMonotone ==
  [][(Loads(disk) /\ ~ResumeWorkflow) => disk'.progress >= disk.progress]_vars

\* C9. Progress value, as claimed: progress is floor(100 * COMPLETED steps /
\* steps), 0 without steps, except that it is 100 when the workflow is
\* COMPLETED.
C9_ProgressValue ==
  Loads(disk) =>
    \/ disk.progress = (IF Len(disk.steps) = 0 THEN 0
                        ELSE (100 * CompletedCount(disk)) \div Len(disk.steps))
    \/ disk.status = COMPLETED /\ disk.progress = 100

\* C10. Queue durability, as claimed: after a crash, the queue file a restart
\* reloads still holds every ticket add() had returned for and get_next had
\* not returned, in the same relative order.
C10_QueueDurable ==
  phase = "down" => IsSubSeq(owed, Load(qfile))

\* The ids of the steps of a document that are RUNNING.
RunningIds(workflow) ==
  {workflow.steps[i].id : i \in {j \in DOMAIN workflow.steps : workflow.steps[j].status = RUNNING}}

\* The worker has nothing left to do: it is between iterations and the queue
\* is empty; no operator call and no crash has happened.
WorkerDrained ==
  /\ phase = "up"
  /\ wpc = "idle"
  /\ queue = <<>>
  /\ edgeOps = 0
  /\ crashes = 0

\* C11. Crash recovery (S6), as claimed: when the process restarts after it
\* was killed with a step RUNNING in the persisted document, recovery leaves
\* that step in a status other than RUNNING and a ticket for it in the queue
\* (from where a fair worker with succeeding adapters completes the workflow).
C11_CrashRecovery ==
  [][(Startup /\ Loads(disk))
     => \A id \in RunningIds(disk) :
          /\ StatusOf(disk', id) # RUNNING
          /\ InQueue(queue', WfId, id)]_vars

\* C13. Critical failure (S2), as claimed: with A (no dependencies,
\* stop_workflow) failed and B depending on A, once the worker has drained the
\* queue the document has B STOPPED, the workflow FAILED and progress 0.
C13_CriticalFailureS2 ==
  (/\ WorkerDrained
   /\ Loads(disk)
   /\ Len(disk.steps) = 2
   /\ disk.steps[1].on_failure = STOP_WORKFLOW
   /\ disk.steps[2].dependencies = {"A"}
   /\ disk.steps[1].status = FAILED)
  => (/\ disk.steps[2].status = STOPPED
      /\ disk.status = FAILED
      /\ disk.progress = 0)

\* C14. Continue on failure (S3), as claimed: with A (no dependencies,
\* continue) failed and the independent step B completed, once the worker has
\* drained the queue the workflow is FAILED.
C14_ContinueOnFailureS3 ==
  (/\ WorkerDrained
   /\ Loads(disk)
   /\ Len(disk.steps) = 2
   /\ disk.steps[1].on_failure = CONTINUE
   /\ disk.steps[2].dependencies = {}
   /\ disk.steps[1].status = FAILED
   /\ disk.steps[2].status = COMPLETED)
  => disk.status = FAILED

\* C15. Single running step, as claimed: the persisted documents never show
\* more than one step RUNNING.
C15_SingleRunningStep ==
  Loads(disk) => Cardinality(RunningIds(disk)) <= 1

\* C16. No double execution, as claimed, for the calls whose outcome was
\* never written: the worker does not call the adapter for a step it has
\* already called it for, unless a recovery run (or a resume) has reset the
\* step in between.
C16_NoDoubleExecution ==
  [][(WorkerTake /\ last' = "run") => wnode' \notin invoked]_vars

\* A populated outputs field goes with COMPLETED, a populated error with
\* FAILED.
Exclusive(step) ==
  /\ step.status = COMPLETED => (step.outputs /\ ~step.error)
  /\ step.status = FAILED => (step.error /\ ~step.outputs)

\* C18. Output/error exclusivity, as claimed: in the persisted document a
\* COMPLETED step has outputs and no error, a FAILED step has an error and no
\* outputs, also when the step failed in the worker's except branch.
C18_OutputErrorExclusive ==
  Loads(disk) => \A i \in DOMAIN disk.steps : Exclusive(disk.steps[i])

\* C20. Queue file mirrors the queue, as claimed: after a start of the
\* process and after every step that changes the queue and does not raise,
\* the queue file holds the queue that is in memory.
C20_QueueFileMirrorsQueue ==
  [][(/\ phase' = "up"
      /\ phase = "down" \/ queue' # queue
      /\ last' # "raise")
     => Load(qfile') = queue']_vars

\* C17. COMPLETED is never reset: no step of the event loop, of recovery or of
\* a crash takes a step that is COMPLETED in the persisted document to a
\* document in which it has another status.
C17_CompletedNeverReset ==
  [][\A i \in DOMAIN disk.steps :
       (disk.steps[i].status = COMPLETED /\ HasStep(disk', disk.steps[i].id))
         => StatusOf(disk', disk.steps[i].id) = COMPLETED]_vars

\* C17 witness: the operator has stopped a workflow that has a COMPLETED step
\* and steps the stop has set STOPPED.
C17_Witness ==
  /\ last = "stop"
  /\ CompletedStepIds(disk) # {}
  /\ \E i \in DOMAIN disk.steps : disk.steps[i].status = STOPPED

\* Every step COMPLETED, the workflow COMPLETED with progress 100.
AllCompleted(workflow) ==
  /\ Loads(workflow)
  /\ \A i \in DOMAIN workflow.steps : workflow.steps[i].status = COMPLETED
  /\ workflow.status = COMPLETED
  /\ workflow.progress = 100

Returned ==
  LET got == SelectSeq(qlog.gets, LAMBDA r : r.job # None)
  IN [i \in 1..Len(got) |-> got[i].job]

\* C19. Queue FIFO: after any sequence of add and get_next calls, the tickets
\* get_next has returned followed by the tickets still queued are the tickets
\* add received, in that order; get_next returned None exactly in the calls
\* made on an empty queue; size() is the number of adds minus the number of
\* tickets returned.
C19_QueueFIFO ==
  /\ Returned \o queue = qlog.adds
  /\ \A i \in DOMAIN qlog.gets : qlog.gets[i].job = None <=> qlog.gets[i].size = 0
  /\ size(queue) = Len(qlog.adds) - Len(Returned)

\* C19 witness: get_next has returned the same ticket twice, another ticket
\* between the two, and None once.
C19_Witness ==
  /\ \E i, j, k \in DOMAIN Returned :
       i < j /\ j < k /\ Returned[i] = Returned[k] /\ Returned[i] # Returned[j]
  /\ \E i \in DOMAIN qlog.gets : qlog.gets[i].job = None

\* C21. Atomic state write, as claimed: when the process is killed, at any
\* point of a write of the workflow document included, the state.json that
\* loaded before the kill still loads afterwards.
C21_AtomicStateWrite ==
  [][(phase' = "down" /\ Loads(disk)) => Loads(disk')]_vars

\* C23. Operator resume, as claimed: after a resume of a STOPPED or FAILED
\* workflow no step of the persisted document is left STOPPED or FAILED.
C23_ResumeResetsEveryStep ==
  [][ResumeWorkflow
     => \A i \in DOMAIN disk'.steps : disk'.steps[i].status \notin {STOPPED, FAILED}]_vars

\* The worker dequeues a ticket of a step that is not COMPLETED, FAILED or
\* STOPPED and has a dependency that is not COMPLETED.
GateClosed ==
  /\ Head_IsStepOf(disk)
  /\ ~IsTerminalStep(FindStep(disk, Head(queue).node_id))
  /\ ~DependenciesMet(disk, FindStep(disk, Head(queue).node_id))

\* C28. Dependency gate re-enqueues, as claimed: after a worker iteration that
\* dequeues a ticket of a non-terminal step with a dependency that is not
\* COMPLETED, the queue holds a ticket of that step and the step's status is
\* what it was.
C28_DependencyGateReenqueues ==
  [][(WorkerTake /\ GateClosed)
     => /\ InQueue(queue', WfId, Head(queue).node_id)
        /\ StatusOf(disk', Head(queue).node_id) = StatusOf(disk, Head(queue).node_id)]_vars

\* C29. Worker exception handling, as claimed: when an operation of a worker
\* iteration raises after the ticket's step has been located (the write of
\* the RUNNING state, an enqueue of a successor, the write of the result), the
\* persisted document has the step FAILED with an error message, and the
\* worker goes on.
C29_WorkerExceptionHandling ==
  [][(WorkerTakeRaises \/ \E at \in {"add", "write"}, k \in 1..Len(wmem.steps) :
                             WorkerFinishRaises(at, k))
     => /\ Loads(disk')
        /\ StatusOf(disk', wnode') = FAILED
        /\ FindStep(disk', wnode').error
        /\ phase' = "up"]_vars

\* C24. Recovery precedes the worker: a process that is starting takes no
\* step but the whole of recovery followed by the whole of cleanup.  When the
\* worker can first call get_next the document is the one
\* check_and_recover_orphans leaves and the queue is the one
\* cleanup_stale_queue_items leaves; up to then the worker is idle, no step
\* has become RUNNING and no ticket of an existing workflow has left the
\* queue.
C24_RecoveryPrecedesWorker ==
  [][phase = "down"
     => LET rec == check_and_recover_orphans(disk, Load(qfile), qfile)
        IN /\ phase' = "up"
           /\ disk' = rec.disk
           /\ queue' = cleanup_stale_queue_items(rec.disk, rec.queue)
           /\ wpc' = "idle"
           /\ RunningIds(disk') \subseteq RunningIds(disk)
           /\ IsSubSeq(cleanup_stale_queue_items(disk, Load(qfile)), queue')]_vars

\* C24 witness: the process has restarted after a kill; recovery has reset
\* the workflow to PENDING and queued a step behind a COMPLETED one, the
\* queue file holds that queue, and the worker has not dequeued anything yet.
C24_Witness ==
  /\ last = "startup"
  /\ crashes > 0
  /\ wnode = ""
  /\ Loads(disk)
  /\ disk.status = PENDING
  /\ CompletedCount(disk) > 0
  /\ qfile = Persisted(queue)
  /\ \E i \in DOMAIN disk.steps :
       /\ disk.steps[i].status = WAITING_FOR_DEPENDENCY
       /\ InQueue(queue, WfId, disk.steps[i].id)

\* The steps add_external_data is to queue, on the document before the call:
\* PENDING, with dependencies, all of them COMPLETED once the new step is
\* appended, and without a ticket in the queue.
ExternalReady(workflow, q, id) ==
  LET s == FindStep(workflow, id)
  IN /\ s.status = PENDING
     /\ s.dependencies # {}
     /\ s.dependencies \subseteq (CompletedStepIds(workflow) \cup {ExtId})
     /\ ~InQueue(q, WfId, id)

\* C27. External data: add_external_data appends exactly one step, COMPLETED,
\* without dependencies and with outputs; every PENDING step with
\* dependencies that are all COMPLETED after the append and with no ticket in
\* the queue gets a ticket and becomes WAITING_FOR_DEPENDENCY; every other
\* step that was there keeps its status and its outputs.
C27_ExternalData ==
  [][AddExternalData
     => /\ Len(disk'.steps) = Len(disk.steps) + 1
        /\ LET new == disk'.steps[Len(disk'.steps)]
           IN /\ new.id \notin StepIds(disk)
              /\ new.status = COMPLETED
              /\ new.dependencies = {}
              /\ new.outputs
        /\ \A i \in DOMAIN disk.steps :
             /\ disk'.steps[i].id = disk.steps[i].id
             /\ IF ExternalReady(disk, queue, disk.steps[i].id)
                THEN /\ disk'.steps[i].status = WAITING_FOR_DEPENDENCY
                     /\ InQueue(queue', WfId, disk.steps[i].id)
                ELSE /\ disk'.steps[i].status = disk.steps[i].status
                     /\ disk'.steps[i].outputs = disk.steps[i].outputs]_vars

\* C27 witness: add_external_data has appended its step and queued a PENDING
\* step whose dependencies were COMPLETED and whose ticket had been lost.
C27_Witness ==
  /\ last = "external_queued"
  /\ HasStep(disk, ExtId)
  /\ queue # <<>>
  /\ qfile = Persisted(queue)
  /\ LET job == queue[Len(queue)]
     IN /\ HasStep(disk, job.node_id)
        /\ StatusOf(disk, job.node_id) = WAITING_FOR_DEPENDENCY
        /\ FindStep(disk, job.node_id).dependencies # {}

\* C22. Operator stop, as claimed: a stop call on an existing workflow,
\* whatever its status, leaves a document with status STOPPED in which every
\* step that was RUNNING, PENDING or WAITING_FOR_DEPENDENCY is STOPPED and
\* every other step has the status it had.
C22_OperatorStop ==
  [][(StopWorkflow \/ StopIgnored)
     => /\ disk'.status = STOPPED
        /\ \A i \in DOMAIN disk.steps :
             disk'.steps[i].status =
               IF disk.steps[i].status \in {RUNNING, PENDING, WAITING_FOR_DEPENDENCY}
               THEN STOPPED ELSE disk.steps[i].status]_vars

\* A create_workflow call for an id whose document exists.
DuplicateCreate ==
  /\ Exists(disk)
  /\ CreateConflict \/ \E steps \in Requests \cup Malformed : CreateWorkflow(steps)

WellFormed(workflow) ==
  \A i \in DOMAIN workflow.steps :
    /\ workflow.steps[i].dependencies \subseteq StepIds(workflow)
    /\ workflow.steps[i].id \notin TransitiveSuccessors(workflow, workflow.steps[i].id)

\* C26. Well-formed DAG, as claimed: the dependency graph of every persisted
\* document is acyclic and names only steps of the workflow, whatever step
\* list the client posted.
C26_WellFormedDAG ==
  Loads(disk) => WellFormed(disk)

\* The worker is about to dequeue a ticket of a workflow without a document,
\* or of a step that is not in the document.
StaleHead ==
  /\ queue # <<>>
  /\ \/ Head(queue).workflow_id # WfId
     \/ ~Exists(disk)
     \/ Loads(disk) /\ ~HasStep(disk, Head(queue).node_id)

\* C30. Stale ticket discard: a worker iteration that dequeues a ticket
\* whose workflow has no document, or whose step is not in the document,
\* removes that ticket and adds none, leaves the document (or its absence) as
\* it is, and ends with the worker ready for the next ticket.
C30_StaleTicketDiscarded ==
  [][(WorkerTake /\ StaleHead)
     => /\ queue' = Tail(queue)
        /\ qfile' = Persisted(queue')
        /\ disk' = disk
        /\ wpc' = "idle"
        /\ phase' = "up"]_vars

\* C30 witness: the worker has discarded a ticket of a step that is not in
\* the document, and there are tickets left for it to go on with.
C30_Witness ==
  /\ last = "skip"
  /\ Loads(disk)
  /\ ~HasStep(disk, wnode)
  /\ wpc = "idle"
  /\ queue # <<>>

\* The worker has discarded a ticket of a workflow that has no document.
C30_WitnessNoDocument ==
  /\ last = "skip"
  /\ ~Exists(disk)
  /\ wnode # ""
  /\ wpc = "idle"

\* C33. Queue cleanup, as claimed: when recovery and cleanup have run, the
\* queue holds no ticket of a workflow without a document and no ticket of a
\* step that is COMPLETED, FAILED or STOPPED.
C33_QueueCleanup ==
  [][Startup
     => \A i \in DOMAIN queue' :
          /\ queue'[i].workflow_id = WfId
          /\ Exists(disk')
          /\ (Loads(disk') /\ HasStep(disk', queue'[i].node_id))
               => ~IsTerminalStep(FindStep(disk', queue'[i].node_id))]_vars

\* The steps of the document that are WAITING_FOR_DEPENDENCY.
WaitingIds(workflow) ==
  {workflow.steps[i].id : i \in {j \in DOMAIN workflow.steps :
      workflow.steps[j].status = WAITING_FOR_DEPENDENCY}}

\* C34. WAITING_FOR_DEPENDENCY means a ticket exists, as claimed: whenever
\* the process is up and the worker is between two iterations, every step
\* that is WAITING_FOR_DEPENDENCY in the persisted document has a ticket in
\* the queue.
C34_WaitingHasTicket ==
  (phase = "up" /\ wpc = "idle" /\ Loads(disk))
    => \A id \in WaitingIds(disk) : InQueue(queue, WfId, id)

\* C38. No lost edge update, as claimed: an external-data step that is in the
\* persisted document is in every later persisted document, also in the one
\* the worker writes when an adapter call returns that was in flight while
\* the step was appended.
C38_NoLostEdgeUpdate ==
  [][(Loads(disk) /\ HasStep(disk, ExtId) /\ Loads(disk')) => HasStep(disk', ExtId)]_vars

\* C40. No orphaned RUNNING step after recovery, as claimed: when the process
\* has restarted and recovery has run, no step of the persisted document is
\* RUNNING, whatever the status of the workflow.
C40_NoOrphanedRunning ==
  [][(Startup /\ Loads(disk')) => RunningIds(disk') = {}]_vars

\* How many tickets of step id the queue holds.
TicketCount(q, id) == Cardinality({i \in DOMAIN q : q[i] = Ticket(WfId, id)})

\* The tickets an action has appended to the queue.
NewTickets == SubSeq(queue', Len(queue) + 1, Len(queue'))

\* C31. Ready set after success, as claimed: when a worker iteration in which
\* the step completed has written the document, every PENDING step of it
\* whose dependencies are all COMPLETED has a ticket in the queue, every step
\* a ticket was added for is WAITING_FOR_DEPENDENCY, and no ticket was added
\* for a step with a dependency that is not COMPLETED.
C31_ReadySetAfterSuccess ==
  [][WorkerFinish(FALSE)
     => /\ \A i \in DOMAIN disk'.steps :
             (/\ disk'.steps[i].status = PENDING
              /\ disk'.steps[i].dependencies \subseteq CompletedStepIds(disk'))
               => InQueue(queue', WfId, disk'.steps[i].id)
        /\ \A k \in DOMAIN NewTickets :
             /\ StatusOf(disk', NewTickets[k].node_id) = WAITING_FOR_DEPENDENCY
             /\ FindStep(disk', NewTickets[k].node_id).dependencies
                  \subseteq CompletedStepIds(disk')]_vars

\* C32. Recovery re-seeds the queue: when the process starts on a workflow
\* whose status is RUNNING, PENDING or WAITING_FOR_DEPENDENCY, afterwards no
\* step is RUNNING, the workflow is not RUNNING, and every PENDING or
\* WAITING_FOR_DEPENDENCY step whose dependencies are all COMPLETED has at
\* least one ticket: the tickets the queue file held for it, and one more at
\* most.
C32_RecoveryReseeds ==
  [][(Startup /\ IsStuck(disk))
     => /\ RunningIds(disk') = {}
        /\ disk'.status # RUNNING
        /\ \A i \in DOMAIN disk'.steps :
             LET s == disk'.steps[i]
             IN (/\ s.status \in {PENDING, WAITING_FOR_DEPENDENCY}
                 /\ s.dependencies \subseteq CompletedStepIds(disk'))
                  => /\ TicketCount(queue', s.id) >= 1
                     /\ TicketCount(queue', s.id) - TicketCount(Load(qfile), s.id)
                          \in {0, 1}]_vars

C36_ContinueLeavesOthers ==
  [][(WorkerFinish(TRUE) /\ FindStep(wmem, wnode).on_failure = CONTINUE)
     => /\ \A i \in DOMAIN wmem.steps :
             wmem.steps[i].id # wnode
               => /\ disk'.steps[i].id = wmem.steps[i].id
                  /\ disk'.steps[i].status = wmem.steps[i].status
        /\ disk'.status = FAILED => (wmem.status = FAILED \/ HasCriticalFailure(disk'))
        /\ queue' = queue]_vars

\* A step of the worker.
WorkerStep ==
  \/ WorkerTake
  \/ WorkerTakeRaises
  \/ \E error \in BOOLEAN : WorkerFinish(error)
  \/ \E at \in {"add", "write"}, k \in 1..Len(wmem.steps) : WorkerFinishRaises(at, k)

\* C37. FAILED is sticky for the worker: a step of the worker that finds the
\* persisted workflow FAILED leaves it FAILED, whether it starts a step,
\* records a success or a failure, or recomputes the terminal state.
C37_FailedSticky ==
  [][(WorkerStep /\ Loads(disk) /\ disk.status = FAILED /\ Loads(disk'))
     => disk'.status = FAILED]_vars

\* C32 witness: the process has restarted after a kill that lost a ticket;
\* recovery has queued that step again, behind the ticket the queue file
\* held, and it is WAITING_FOR_DEPENDENCY; the step whose ticket was in the
\* queue file is PENDING with that one ticket.
C32_Witness ==
  /\ last = "startup"
  /\ crashes > 0
  /\ Loads(disk)
  /\ disk.status = PENDING
  /\ \E i, j \in DOMAIN disk.steps :
       /\ disk.steps[i].status = WAITING_FOR_DEPENDENCY
       /\ TicketCount(queue, disk.steps[i].id) = 1
       /\ TicketCount(Load(qfile), disk.steps[i].id) = 1
       /\ disk.steps[j].status = PENDING
       /\ TicketCount(queue, disk.steps[j].id) = 1
       /\ queue[1] = Ticket(WfId, disk.steps[j].id)
       /\ queue[Len(queue)] = Ticket(WfId, disk.steps[i].id)

C36_Witness ==
  /\ last = "error"
  /\ Loads(disk)
  /\ HasStep(disk, wnode)
  /\ StatusOf(disk, wnode) = FAILED
  /\ FindStep(disk, wnode).on_failure = CONTINUE
  /\ disk.status = RUNNING
  /\ \E i \in DOMAIN disk.steps :
       /\ wnode \in disk.steps[i].dependencies
       /\ disk.steps[i].status = PENDING

\* C37 witness: in a FAILED workflow the worker has started a step and then
\* recorded its success; the workflow is still FAILED.
C37_Witness ==
  /\ last = "success"
  /\ Loads(disk)
  /\ disk.status = FAILED
  /\ HasStep(disk, wnode)
  /\ StatusOf(disk, wnode) = COMPLETED
  /\ HasCriticalFailure(disk)

\* No step is left to run.
NothingLeft(workflow) ==
  \A i \in DOMAIN workflow.steps :
    workflow.steps[i].status \notin {PENDING, RUNNING, WAITING_FOR_DEPENDENCY}

\* C39. Every workflow terminates, as claimed: with adapter calls that
\* succeed or fail, no stop, no kill and a fairly scheduled worker, every
\* workflow that has been created reaches a state in which the queue is
\* empty, no step is PENDING, RUNNING or WAITING_FOR_DEPENDENCY and the
\* workflow is COMPLETED or FAILED.
C39_EveryWorkflowTerminates ==
  Loads(disk) ~> (/\ queue = <<>>
                  /\ NothingLeft(disk)
                  /\ disk.status \in {COMPLETED, FAILED})

====
